---- MODULE Spec2Model ----
(***************************************************************************)
(* A model of the chunking-and-synthesis pipeline of the OMS document      *)
(* comparison backend (src/comparison_service.py).                         *)
(*                                                                         *)
(* Strings are sequences of one-character strings; Python offsets are      *)
(* 0-based and are kept 0-based in every modelled variable and field.      *)
(***************************************************************************)
EXTENDS Integers, Sequences, FiniteSets, TLC

(***************************************************************************)
(* Bounds of the model.                                                    *)
(***************************************************************************)
\* longest text given to the size-based and the semantic chunker
MaxTextLen == 4
\* largest chunk_size / max_chunk_size parameter tried
MaxChunkSize == 3
\* most tokens concatenated into a text for the section chunker
MaxSectionTokens == 3
\* most spans in a chunk set handed to the selector
MaxSetSize == 2
\* most spans in the chunk list of a pipeline run
MaxChunks == 3

\* most paragraphs joined into a text for the semantic chunker
MaxParagraphs == 3

\* most lines of a text of header lines and body lines
MaxHeaderLines == 4

\* the most blanks before and after the body of a service response
MaxPadding == 1

\* Spans recorded in a chunk list; later appends of a loop that is still
\* running are not recorded (the loop itself goes on as in the code).
MaxSpans == MaxTextLen + 2

(***************************************************************************)
(* Python primitives used by the code.                                     *)
(***************************************************************************)
\* min(S); the set is bound once, as T
MinOf(S) == CHOOSE x \in UNION {{m \in T : \A y \in T : m <= y} : T \in {S}} : TRUE

\* max(S); the set is bound once, as T
MaxOf(S) == CHOOSE x \in UNION {{m \in T : \A y \in T : m >= y} : T \in {S}} : TRUE

Min2(a, b) == IF a <= b THEN a ELSE b

\* index normalisation of a slice bound: negative counts from the end,
\* then clamped into 0..n
SliceIndex(i, n) == IF i < 0 THEN (IF i + n < 0 THEN 0 ELSE i + n)
                    ELSE (IF i > n THEN n ELSE i)

\* s[lo:hi]
Slice(s, lo, hi) ==
  LET a == SliceIndex(lo, Len(s))
      b == SliceIndex(hi, Len(s))
  IN IF a >= b THEN << >> ELSE SubSeq(s, a + 1, b)

\* s[lo:]
SliceFrom(s, lo) == Slice(s, lo, Len(s))

\* s.rfind(sub): highest 0-based index of an occurrence, -1 when none
RFind(s, sub) ==
  LET hits == {i \in 0..(Len(s) - Len(sub)) : SubSeq(s, i + 1, i + Len(sub)) = sub}
  IN IF hits = {} THEN -1 ELSE MaxOf(hits)

\* s.find(sub): lowest 0-based index of an occurrence, -1 when none
Find(s, sub) ==
  LET hits == {i \in 0..(Len(s) - Len(sub)) : SubSeq(s, i + 1, i + Len(sub)) = sub}
  IN IF hits = {} THEN -1 ELSE MinOf(hits)

\* whitespace as str.strip(), str.split() and the regex class \s see it
IsSpace(c) == c \in {" ", "\n"}

\* s.strip()
Strip(s) ==
  LET keep == {i \in 1..Len(s) : ~IsSpace(s[i])}
  IN IF keep = {} THEN << >> ELSE SubSeq(s, MinOf(keep), MaxOf(keep))

\* s.split(sep) for a non-empty separator: always at least one piece
RECURSIVE Split(_, _)
Split(s, sep) ==
  LET i == Find(s, sep)
  IN IF i = -1 THEN << s >>
     ELSE << Slice(s, 0, i) >> \o Split(SliceFrom(s, i + Len(sep)), sep)

\* len(s.split()): the number of maximal runs of non-whitespace
WordCount(s) ==
  Cardinality({i \in 1..Len(s) : ~IsSpace(s[i]) /\ (i = 1 \/ IsSpace(s[i - 1]))})

RECURSIVE Concat(_)
\* "".join(parts)
Concat(parts) == IF parts = << >> THEN << >> ELSE Head(parts) \o Concat(Tail(parts))

RECURSIVE Join(_, _)
\* sep.join(parts)
Join(sep, parts) ==
  IF parts = << >> THEN << >>
  ELSE IF Len(parts) = 1 THEN Head(parts)
       ELSE Head(parts) \o sep \o Join(sep, Tail(parts))

(***************************************************************************)
(* The three section-boundary patterns of create_chunks_by_section, as     *)
(* re.finditer matches them (no flags: "." excludes the newline, \s and a  *)
(* negated class include it).  Positions are 1-based inside s.             *)
(***************************************************************************)
IsUpper(c) == c \in {"A"}

IsDigit(c) == c \in {"1"}

IsSentenceEnd(c) == c \in {".", "!", "?"}

\* r'\n#{1,6}\s+.*?\n' matches at p
MatchMarkdownHeader(s, p) ==
  /\ p <= Len(s)
  /\ s[p] = "\n"
  /\ \E k \in 1..6 : \E m \in 1..Len(s) : \E j \in 0..Len(s) :
       /\ p + k + m + j + 1 <= Len(s)
       /\ \A x \in 1..k : s[p + x] = "#"
       /\ \A x \in 1..m : IsSpace(s[p + k + x])
       /\ \A x \in 1..j : s[p + k + m + x] # "\n"
       /\ s[p + k + m + j + 1] = "\n"

\* r'\n[A-Z][^.!?]*[:]\n' matches at p
MatchSectionTitle(s, p) ==
  /\ p + 1 <= Len(s)
  /\ s[p] = "\n"
  /\ IsUpper(s[p + 1])
  /\ \E j \in 0..Len(s) :
       /\ p + j + 3 <= Len(s)
       /\ \A x \in 1..j : ~IsSentenceEnd(s[p + 1 + x])
       /\ s[p + j + 2] = ":"
       /\ s[p + j + 3] = "\n"

\* r'\n\d+\.\s+[A-Z][^.!?]*\n' matches at p
MatchNumberedSection(s, p) ==
  /\ p <= Len(s)
  /\ s[p] = "\n"
  /\ \E d \in 1..Len(s) : \E m \in 1..Len(s) : \E j \in 0..Len(s) :
       /\ p + d + m + j + 3 <= Len(s)
       /\ \A x \in 1..d : IsDigit(s[p + x])
       /\ s[p + d + 1] = "."
       /\ \A x \in 1..m : IsSpace(s[p + d + 1 + x])
       /\ IsUpper(s[p + d + m + 2])
       /\ \A x \in 1..j : ~IsSentenceEnd(s[p + d + m + 2 + x])
       /\ s[p + d + m + j + 3] = "\n"

section_patterns == << "markdown", "title", "numbered" >>

Matches(pattern, s, p) ==
  CASE pattern = "markdown" -> MatchMarkdownHeader(s, p)
    [] pattern = "title"    -> MatchSectionTitle(s, p)
    [] pattern = "numbered" -> MatchNumberedSection(s, p)

\* the 0-based starts of the places where the pattern matches in s; the
\* least of them is matches[0].start()
MatchStarts(pattern, s) == {p - 1 : p \in {q \in 1..Len(s) : Matches(pattern, s, q)}}

\* the position of the last pattern that matches taken as it is, without the
\* minimum over the patterns
LastPatternWins(txt, cur) ==
  MinOf(UNION {IF \A n \in 1..Len(section_patterns) :
                     MatchStarts(section_patterns[n], rest) = {}
               THEN {Len(txt)}
               ELSE {MinOf(MatchStarts(
                       section_patterns[MaxOf({n \in 1..Len(section_patterns) :
                          MatchStarts(section_patterns[n], rest) # {}})], rest)) + cur} :
               rest \in {SliceFrom(txt, cur)}})

\* lines 74-81: the earliest boundary at or after current_pos, else len(text)
\* (rest is text[current_pos:])
NextSectionStart(txt, cur) ==
  MinOf({Len(txt)} \cup
        UNION {{MinOf(MatchStarts(section_patterns[n], rest)) + cur :
                  n \in {x \in 1..Len(section_patterns) :
                           MatchStarts(section_patterns[x], rest) # {}}} :
               rest \in {SliceFrom(txt, cur)}})

(***************************************************************************)
(* State.                                                                  *)
(***************************************************************************)
VARIABLES
  pc,              \* position of the running function
  strategy,        \* the function under execution
  text,            \* the input text of a chunker
  chunk_size,      \* create_chunks_by_size parameters
  overlap,
  max_chunk_size,  \* create_semantic_chunks parameter
  start,           \* locals of create_chunks_by_size
  end,
  chunk,
  current_pos,     \* local of create_chunks_by_section
  paragraphs,      \* locals of create_semantic_chunks: the paragraphs,
  para_i,          \*   the index of the next para,
  current_chunk,
  current_start,
  chunks,          \* the chunk list being built / the selected chunk list
  size_chunks,     \* arguments of select_optimal_chunks
  section_chunks,
  semantic_chunks,
  scores,          \* locals of select_optimal_chunks
  best_strategy,
  i,               \* locals of process_document_comparison: the loop index,
  chunk_results,   \*   the accumulated results,
  final_result,    \*   the value returned
  requests,        \* the calls the generation service has received, in order
  effects          \* what the run did to its surroundings, in order: the
                   \*   progress indicators, the pacing delays, the service
                   \*   calls, the messages and the exceptions that reached
                   \*   the outer handler

paramVars == << strategy, text, chunk_size, overlap, max_chunk_size >>

sizeVars == << start, end, chunk >>

sectionVars == << current_pos >>

semanticVars == << paragraphs, para_i, current_chunk, current_start >>

chunkerVars == << paramVars, sizeVars, sectionVars, semanticVars >>

selectVars == << size_chunks, section_chunks, semantic_chunks, scores, best_strategy >>

pipeVars == << i, chunk_results, final_result, requests, effects >>

vars == << pc, chunkerVars, chunks, selectVars, pipeVars >>

(***************************************************************************)
(* Input texts.                                                            *)
(***************************************************************************)
RECURSIVE SeqsUpTo(_, _)
\* all sequences over S of length at most n
SeqsUpTo(S, n) ==
  IF n = 0 THEN {<< >>}
  ELSE LET shorter == SeqsUpTo(S, n - 1)
       IN shorter \cup {Append(t, c) : t \in {u \in shorter : Len(u) = n - 1}, c \in S}

\* one representative of every character class the size chunker tells apart
SizeAlphabet == {"a", " ", ".", "\n", "?", "!"}

\* one representative of every character class the semantic chunker sees
SemanticAlphabet == {"a", " ", "\n"}

\* building blocks of the texts given to the section chunker: a body
\* character, a line break, and the openers of the three boundary kinds
SectionTokens ==
  { << "a" >>, << "\n" >>, << " " >>, << "." >>,
    << "\n", "#", " " >>, << "\n", "A", ":" >>, << "\n", "1", ".", " ", "A" >> }

SizeTexts == SeqsUpTo(SizeAlphabet, MaxTextLen)

\* paragraphs shorter than, as long as and longer than the sizes tried
ParagraphPool == { << >>, << "a" >>, << "a", "a" >>, << "a", " " >> }

\* texts of up to MaxParagraphs paragraphs with the separator between them
ParagraphTexts ==
  {Join(<< "\n", "\n" >>, t) : t \in SeqsUpTo(ParagraphPool, MaxParagraphs)}

SemanticTexts == SeqsUpTo(SemanticAlphabet, MaxTextLen) \cup ParagraphTexts

\* the lines of a document with markdown headers: a body line, a header
\* line, an empty line
DocumentLines == { << "a", "\n" >>, << "#", " ", "a", "\n" >>, << "\n" >> }

\* documents of up to MaxHeaderLines lines
HeaderTexts == {Concat(t) : t \in SeqsUpTo(DocumentLines, MaxHeaderLines)}

SectionTexts ==
  {Concat(t) : t \in SeqsUpTo(SectionTokens, MaxSectionTokens)} \cup HeaderTexts

\* a list grown by one span, up to the recorded length
Record(list, span) == IF Len(list) < MaxSpans THEN Append(list, span) ELSE list

(***************************************************************************)
(* ChunkingStrategy.create_chunks_by_size                                  *)
(***************************************************************************)
\* the left-most boundary marker in the window instead of the right-most
FirstBreak(window) ==
  LET found == { Find(window, << ".", " " >>),
                 Find(window, << "\n", "\n" >>),
                 Find(window, << ".", " ", "\n" >>),
                 Find(window, << "?", " " >>),
                 Find(window, << "!", " " >>) } \ {-1}
  IN IF found = {} THEN -1 ELSE MinOf(found)

\* lines 36-43: the right-most boundary marker in the window
LastBreak(window) ==
  MaxOf({ RFind(window, << ".", " " >>),
          RFind(window, << "\n", "\n" >>),
          RFind(window, << ".", " ", "\n" >>),
          RFind(window, << "?", " " >>),
          RFind(window, << "!", " " >>) })

\* line 30: the start of the window that is sliced
WindowStart(s) == IF s > 0 THEN s - overlap ELSE s

\* lines 26-32: the loop test, the nominal end and the slice
SizeSlice ==
  /\ pc = "size_loop"
  /\ start < Len(text)
  /\ end' = Min2(start + chunk_size, Len(text))
  /\ start' = WindowStart(start)
  /\ chunk' = Slice(text, start', end')
  /\ pc' = "size_adjust"
  /\ UNCHANGED << paramVars, sectionVars, semanticVars, chunks, selectVars,
                  pipeVars >>

\* lines 34-56: boundary trimming, the append and the advance
SizeEmit ==
  /\ pc = "size_adjust"
  /\ LET trim    == end < Len(text) /\ LastBreak(chunk) # -1
         newText == IF trim THEN Slice(chunk, 0, LastBreak(chunk) + 1) ELSE chunk
         newEnd  == IF trim THEN start + LastBreak(chunk) + 1 ELSE end
     IN /\ chunks' = Record(chunks, [text |-> Strip(newText), start_pos |-> start,
                                      end_pos |-> newEnd, type |-> "size_based"])
        /\ end' = newEnd
        /\ chunk' = newText
        /\ start' = newEnd - overlap
  /\ pc' = "size_loop"
  /\ UNCHANGED << paramVars, sectionVars, semanticVars, selectVars, pipeVars >>

\* lines 26, 58: the loop is left and the list returned
SizeReturn ==
  /\ pc = "size_loop"
  /\ ~(start < Len(text))
  /\ pc' = "done"
  /\ UNCHANGED << paramVars, sizeVars, sectionVars, semanticVars, chunks,
                  selectVars, pipeVars >>

(***************************************************************************)
(* ChunkingStrategy.create_chunks_by_section                               *)
(***************************************************************************)
\* the cursor moved past the character after the boundary's first one as well
CursorSkipsTwo(next_section_start) == next_section_start + 2

\* line 92: the cursor after a cut at next_section_start
CursorAfter(next_section_start) == next_section_start + 1

\* lines 73-92: one iteration of the scan (the two locals are bound as values)
SectionStep ==
  /\ pc = "section_loop"
  /\ current_pos < Len(text)
  /\ \E next_section_start \in {NextSectionStart(text, current_pos)} :
       \E chunk_text \in {Strip(Slice(text, current_pos, next_section_start))} :
         /\ chunks' = IF chunk_text # << >>
                      THEN Record(chunks, [text |-> chunk_text,
                                           start_pos |-> current_pos,
                                           end_pos |-> next_section_start,
                                           type |-> "section_based"])
                      ELSE chunks
         /\ current_pos' = CursorAfter(next_section_start)
  /\ UNCHANGED << pc, paramVars, sizeVars, semanticVars, selectVars, pipeVars >>

\* lines 73, 94
SectionReturn ==
  /\ pc = "section_loop"
  /\ ~(current_pos < Len(text))
  /\ pc' = "done"
  /\ UNCHANGED << paramVars, sizeVars, sectionVars, semanticVars, chunks,
                  selectVars, pipeVars >>

(***************************************************************************)
(* ChunkingStrategy.create_semantic_chunks                                 *)
(***************************************************************************)
ParagraphBreak == << "\n", "\n" >>

\* every paragraph taken into the current chunk, whatever its length
FitsAlways(cur, para) == TRUE

\* line 105: the paragraph is added to the current chunk
Fits(cur, para) == Len(cur) + Len(para) < max_chunk_size

\* lines 109-114, 119-124: the span made of the current chunk
SemanticSpan(cur, from) ==
  [text |-> Strip(cur), start_pos |-> from, end_pos |-> from + Len(cur),
   type |-> "semantic"]

\* lines 104-116: one iteration over the paragraphs
SemanticStep ==
  /\ pc = "semantic_loop"
  /\ para_i <= Len(paragraphs)
  /\ LET para == paragraphs[para_i]
     IN IF Fits(current_chunk, para)
        THEN /\ current_chunk' = current_chunk \o para \o ParagraphBreak
             /\ UNCHANGED << current_start, chunks >>
        ELSE /\ chunks' = IF current_chunk # << >>
                          THEN Record(chunks, SemanticSpan(current_chunk, current_start))
                          ELSE chunks
             /\ current_chunk' = para \o ParagraphBreak
             /\ current_start' = current_start + Len(current_chunk')
  /\ para_i' = para_i + 1
  /\ UNCHANGED << pc, paramVars, sizeVars, sectionVars, paragraphs, selectVars,
                  pipeVars >>

\* lines 118-126: the last chunk and the return
SemanticReturn ==
  /\ pc = "semantic_loop"
  /\ para_i > Len(paragraphs)
  /\ chunks' = IF current_chunk # << >>
               THEN Record(chunks, SemanticSpan(current_chunk, current_start))
               ELSE chunks
  /\ pc' = "done"
  /\ UNCHANGED << paramVars, sizeVars, sectionVars, semanticVars, selectVars,
                  pipeVars >>

(***************************************************************************)
(* The chunkers, each called on every input of its bounded input set.      *)
(***************************************************************************)
\* nothing of select_optimal_chunks is running
SelectIdle ==
  /\ size_chunks = << >>
  /\ section_chunks = << >>
  /\ semantic_chunks = << >>
  /\ scores = << >>
  /\ best_strategy = "none"

\* nothing of process_document_comparison is running
PipeIdle ==
  /\ i = 0
  /\ chunk_results = << >>
  /\ final_result = [is_none |-> TRUE, text |-> << >>]
  /\ requests = << >>
  /\ effects = << >>

ChunkInit ==
  /\ pc = "idle"
  /\ strategy = "none"
  /\ text = << >>
  /\ chunk_size = 0
  /\ overlap = 0
  /\ max_chunk_size = 0
  /\ start = 0
  /\ end = 0
  /\ chunk = << >>
  /\ current_pos = 0
  /\ paragraphs = << >>
  /\ para_i = 1
  /\ current_chunk = << >>
  /\ current_start = 0
  /\ chunks = << >>
  /\ SelectIdle
  /\ PipeIdle

\* lines 20-24: a call with chunk_size > overlap >= 0
CallChunksBySize ==
  /\ pc = "idle"
  /\ strategy' = "size"
  /\ text' \in SizeTexts
  /\ chunk_size' \in 1..MaxChunkSize
  /\ overlap' \in 0..(chunk_size' - 1)
  /\ pc' = "size_loop"
  /\ UNCHANGED << max_chunk_size, sizeVars, sectionVars, semanticVars, chunks,
                  selectVars, pipeVars >>

\* lines 61-71
CallChunksBySection ==
  /\ pc = "idle"
  /\ strategy' = "section"
  /\ text' \in SectionTexts
  /\ pc' = "section_loop"
  /\ UNCHANGED << chunk_size, overlap, max_chunk_size, sizeVars, sectionVars,
                  semanticVars, chunks, selectVars, pipeVars >>

\* lines 97-102: a call; line 100 splits the text into its paragraphs
CallSemanticChunks ==
  /\ pc = "idle"
  /\ strategy' = "semantic"
  /\ text' \in SemanticTexts
  /\ max_chunk_size' \in 1..MaxChunkSize
  /\ paragraphs' = Split(text', ParagraphBreak)
  /\ pc' = "semantic_loop"
  /\ UNCHANGED << chunk_size, overlap, sizeVars, sectionVars, para_i, current_chunk,
                  current_start, chunks, selectVars, pipeVars >>

\* the steps of a running chunker
ChunkStep ==
  \/ SizeSlice
  \/ SizeEmit
  \/ SizeReturn
  \/ SectionStep
  \/ SectionReturn
  \/ SemanticStep
  \/ SemanticReturn

ChunkNext ==
  \/ CallChunksBySize
  \/ CallChunksBySection
  \/ CallSemanticChunks
  \/ ChunkStep

\* a call may or may not come; a function that was called runs on: a
\* sequential program always takes its next step
ChunkSpec == ChunkInit /\ [][ChunkNext]_vars /\ WF_vars(ChunkStep)

(***************************************************************************)
(* Claims about the chunkers (ChunkSpec).                                  *)
(***************************************************************************)
\* C1: create_chunks_by_size terminates for every text and every
\* chunk_size > overlap >= 0: the loop `while start < text_length` is left
\* after finitely many iterations and the list is returned.
C1_SizeChunkerTerminates == (pc = "size_loop") ~> (pc = "done")

\* C8: for the empty input text each of the three chunkers returns an empty
\* list of spans (no span at all, not a span with empty text).
C8_EmptyTextNoSpans == (pc = "done" /\ text = << >>) => chunks = << >>

SpanWithinSource(c) ==
  /\ 0 <= c.start_pos
  /\ c.start_pos <= c.end_pos
  /\ c.end_pos <= Len(text)
  /\ c.text = Strip(Slice(text, c.start_pos, c.end_pos))

\* C9: every span emitted by any of the three chunkers satisfies
\* 0 <= start_pos <= end_pos <= len(text), and its text is the source
\* substring text[start_pos:end_pos] up to leading and trailing whitespace.
C9_SpansWithinSource == \A k \in 1..Len(chunks) : SpanWithinSource(chunks[k])

\* C10: every window create_chunks_by_size slices from the text (text[start:end]
\* before trimming and stripping) has at most chunk_size characters.
C10_WindowWithinChunkSize == (pc = "size_adjust") => Len(chunk) <= chunk_size

\* the characters of s that are not whitespace, in order
NonSpace(s) == SelectSeq(s, LAMBDA c : ~IsSpace(c))

\* the texts of the spans of a list, one after the other
SpanTexts(list) == Concat([k \in 1..Len(list) |-> list[k].text])

Groupings(n, m) ==
  {g \in [1..n -> 1..m] :
     /\ g[1] = 1
     /\ g[n] = m
     /\ \A j \in 1..(n - 1) : g[j + 1] \in {g[j], g[j] + 1}}

\* the paragraphs of group k, whole and in order, each with its separator
GroupText(g, k) ==
  Concat([j \in 1..Len(paragraphs) |->
            IF g[j] = k THEN paragraphs[j] \o ParagraphBreak ELSE << >>])

Oversized(para) == Len(para) >= max_chunk_size

\* C12: the spans create_semantic_chunks returns are the paragraphs cut, in
\* order, into groups: every paragraph is whole in exactly one span (the
\* span text is the group up to leading and trailing whitespace), and a
\* paragraph of at least max_chunk_size characters is the only paragraph of
\* its span, wherever it stands.
C12_OversizedParagraphOwnSpan ==
  (pc = "done" /\ strategy = "semantic") =>
    \E g \in Groupings(Len(paragraphs), Len(chunks)) :
      /\ \A k \in 1..Len(chunks) : chunks[k].text = Strip(GroupText(g, k))
      /\ \A j \in 1..Len(paragraphs) :
           Oversized(paragraphs[j]) =>
             \A other \in 1..Len(paragraphs) : other # j => g[other] # g[j]

\* C12 witness: an oversized paragraph between two that are not is the text
\* of the second of three spans
C12_Witness ==
  /\ pc = "done"
  /\ strategy = "semantic"
  /\ Len(paragraphs) = 3
  /\ ~Oversized(paragraphs[1]) /\ paragraphs[1] # << >>
  /\ Oversized(paragraphs[2])
  /\ ~Oversized(paragraphs[3]) /\ paragraphs[3] # << >>
  /\ Len(chunks) = 3
  /\ chunks[2].text = paragraphs[2]

\* a markdown-style header line starts at place p of s (1-based): one to six
\* "#" at the start of a line, then a blank, and the line has its newline
HeaderLineAt(s, p) ==
  /\ p = 1 \/ s[p - 1] = "\n"
  /\ \E k \in 1..6 :
       /\ p + k <= Len(s)
       /\ \A x \in 0..(k - 1) : s[p + x] = "#"
       /\ s[p + k] = " "
       /\ \E e \in (p + k + 1)..Len(s) : s[e] = "\n"

HeaderLineCount(s) == Cardinality({p \in 1..Len(s) : HeaderLineAt(s, p)})

\* C16: for a text with exactly three markdown-style header lines and no
\* other section boundary, create_chunks_by_section returns exactly 3 spans,
\* none with empty text, in document order, whether the first header opens
\* the text or other text precedes it.
C16_ThreeHeadersThreeSpans ==
  ( /\ pc = "done"
    /\ strategy = "section"
    /\ HeaderLineCount(text) = 3
    /\ MatchStarts("title", text) = {}
    /\ MatchStarts("numbered", text) = {} ) =>
    /\ Len(chunks) = 3
    /\ \A k \in 1..Len(chunks) : chunks[k].text # << >>
    /\ \A k \in 1..(Len(chunks) - 1) : chunks[k].start_pos < chunks[k + 1].start_pos

(***************************************************************************)
(* evaluate_chunk_quality and select_optimal_chunks.                       *)
(*                                                                         *)
(* The scores are Python floats; they are modelled as exact fractions      *)
(* [n |-> numerator, d |-> denominator] with d > 0, kept in lowest terms.  *)
(***************************************************************************)
RECURSIVE Gcd(_, _)
Gcd(a, b) == IF b = 0 THEN a ELSE Gcd(b, a % b)

Abs(a) == IF a < 0 THEN -a ELSE a

\* the fraction a/b (b # 0) in lowest terms with a positive denominator
Frac(a, b) ==
  LET g == Gcd(Abs(a), Abs(b))
      sgn == IF b < 0 THEN -1 ELSE 1
  IN [n |-> sgn * (a \div g), d |-> sgn * (b \div g)]

Zero == Frac(0, 1)

FracAdd(x, y) == Frac(x.n * y.d + y.n * x.d, x.d * y.d)

FracSub(x, y) == Frac(x.n * y.d - y.n * x.d, x.d * y.d)

FracMul(x, y) == Frac(x.n * y.n, x.d * y.d)

FracDiv(x, y) == Frac(x.n * y.d, x.d * y.n)

FracLess(x, y) == x.n * y.d < y.n * x.d

RECURSIVE SumOver(_, _)
\* sum(f(c) for c in list), f a function on the elements
SumOver(list, f) ==
  IF list = << >> THEN Zero ELSE FracAdd(f[Head(list)], SumOver(Tail(list), f))

\* a span of exactly 50 words counted as coherent too
CoherentFromFifty(c) == WordCount(c.text) >= 50

\* line 281: the span counts as coherent
Coherent(c) == WordCount(c.text) > 50

\* line 277
AvgChunkSize(chs) ==
  FracDiv(SumOver(chs, [c \in { chs[k] : k \in 1..Len(chs) } |-> Frac(Len(c.text), 1)]),
          Frac(Len(chs), 1))

\* line 278
ChunkSizeVariance(chs) ==
  LET avg == AvgChunkSize(chs)
      sq(c) == FracMul(FracSub(Frac(Len(c.text), 1), avg),
                       FracSub(Frac(Len(c.text), 1), avg))
  IN FracDiv(SumOver(chs, [c \in { chs[k] : k \in 1..Len(chs) } |-> sq(c)]),
             Frac(Len(chs), 1))

\* line 281
CoherenceScore(chs) ==
  FracDiv(SumOver(chs, [c \in { chs[k] : k \in 1..Len(chs) } |->
                          IF Coherent(c) THEN Frac(1, 1) ELSE Zero]),
          Frac(Len(chs), 1))

\* line 284: the guard of the combined score
VarianceUsable(variance) == FracLess(Zero, variance)

\* lines 271-286
evaluate_chunk_quality(chs) ==
  IF chs = << >> THEN Zero
  ELSE IF VarianceUsable(ChunkSizeVariance(chs))
       THEN FracMul(FracDiv(Frac(1000, 1), ChunkSizeVariance(chs)), CoherenceScore(chs))
       ELSE Zero

\* a later item replacing the best so far on a tie as well
BeatsOrTies(candidate, best) == ~FracLess(candidate, best)

\* the comparison max() makes between a later item and the best so far
Beats(candidate, best) == FracLess(best, candidate)

RECURSIVE MaxItem(_, _)
\* line 262: max(items, key=score): the items are visited in order and an
\* item replaces the best so far only when its key is greater
MaxItem(items, best) ==
  IF items = << >> THEN best
  ELSE MaxItem(Tail(items), IF Beats(Head(items)[2], best[2]) THEN Head(items) ELSE best)

\* lines 256-260: the items of the scores dict, in insertion order
ScoreItems(size_score, section_score, semantic_score) ==
  << << "size", size_score >>, << "section", section_score >>,
     << "semantic", semantic_score >> >>

\* texts of k one-letter words
RECURSIVE Words(_)
Words(k) == IF k = 0 THEN << >>
            ELSE IF k = 1 THEN << "a" >> ELSE Words(k - 1) \o << " ", "a" >>

\* span texts around the coherence threshold of 50 words
PoolTexts == { Words(50), Words(51), Words(52) }

\* the chunk sets of one strategy: the offsets play no part in the score
ChunkSets(type) ==
  SeqsUpTo({ [text |-> t, start_pos |-> 0, end_pos |-> Len(t), type |-> type] :
               t \in PoolTexts }, MaxSetSize)

\* lines 247-248: a call with the three chunk sets
CallSelect ==
  /\ pc = "idle"
  /\ size_chunks' \in ChunkSets("size_based")
  /\ section_chunks' \in ChunkSets("section_based")
  /\ semantic_chunks' \in ChunkSets("semantic")
  /\ pc' = "evaluate"
  /\ UNCHANGED << chunkerVars, chunks, scores, best_strategy, pipeVars >>

\* lines 251-260
EvaluateScores ==
  /\ pc = "evaluate"
  /\ scores' = ScoreItems(evaluate_chunk_quality(size_chunks),
                          evaluate_chunk_quality(section_chunks),
                          evaluate_chunk_quality(semantic_chunks))
  /\ pc' = "select"
  /\ UNCHANGED << chunkerVars, chunks, size_chunks, section_chunks, semantic_chunks,
                  best_strategy, pipeVars >>

\* lines 262-269
SelectBest ==
  /\ pc = "select"
  /\ best_strategy' = MaxItem(Tail(scores), Head(scores))[1]
  /\ chunks' = CASE best_strategy' = "size"    -> size_chunks
                 [] best_strategy' = "section" -> section_chunks
                 [] OTHER                      -> semantic_chunks
  /\ pc' = "selected"
  /\ UNCHANGED << chunkerVars, size_chunks, section_chunks, semantic_chunks, scores,
                  pipeVars >>

SelectInit == ChunkInit

SelectNext ==
  \/ CallSelect
  \/ EvaluateScores
  \/ SelectBest

SelectSpec == SelectInit /\ [][SelectNext]_vars /\ WF_vars(EvaluateScores \/ SelectBest)

(***************************************************************************)
(* Claims about the evaluator and the selector (SelectSpec).               *)
(***************************************************************************)
RECURSIVE LengthSum(_)
LengthSum(chs) == IF chs = << >> THEN 0 ELSE Len(Head(chs).text) + LengthSum(Tail(chs))

RECURSIVE LengthSquareSum(_)
LengthSquareSum(chs) ==
  IF chs = << >> THEN 0
  ELSE Len(Head(chs).text) * Len(Head(chs).text) + LengthSquareSum(Tail(chs))

\* the variance of the span text lengths: mean of squares minus squared mean
LengthVariance(chs) ==
  Frac(Len(chs) * LengthSquareSum(chs) - LengthSum(chs) * LengthSum(chs),
       Len(chs) * Len(chs))

AllSameLength(chs) ==
  \A j, k \in 1..Len(chs) : Len(chs[j].text) = Len(chs[k].text)

\* the fraction of spans with more than 50 words
FractionOverFiftyWords(chs) ==
  Frac(Cardinality({k \in 1..Len(chs) : WordCount(chs[k].text) > 50}), Len(chs))

ScoreAsClaimed(chs, score) ==
  /\ chs = << >> => score = Zero
  /\ AllSameLength(chs) => score = Zero
  /\ ~AllSameLength(chs) =>
       FracMul(score, LengthVariance(chs)) =
         FracMul(Frac(1000, 1), FractionOverFiftyWords(chs))
  /\ ~FracLess(score, Zero)

ScoresComputed == pc \in {"select", "selected"}

\* C7: evaluate_chunk_quality returns 0 for an empty chunk set, 0 whenever
\* all spans have the same text length (variance 0, any single-span set
\* included), and otherwise (1000 / variance) times the fraction of spans
\* with more than 50 words; the result is never negative.
C7_ScoreFormula ==
  ScoresComputed =>
    /\ ScoreAsClaimed(size_chunks, scores[1][2])
    /\ ScoreAsClaimed(section_chunks, scores[2][2])
    /\ ScoreAsClaimed(semantic_chunks, scores[3][2])

\* C7 witness: one evaluation with an empty set, a single-span set and a set
\* of two lengths of which one span only has more than 50 words
C7_Witness ==
  /\ ScoresComputed
  /\ size_chunks = << >>
  /\ Len(section_chunks) = 1
  /\ Len(semantic_chunks) = 2
  /\ scores[3][2] = Frac(500, 1)
  /\ FractionOverFiftyWords(semantic_chunks) = Frac(1, 2)

ScoreOf(name) == scores[CHOOSE k \in 1..Len(scores) : scores[k][1] = name][2]

RankOf(name) == CHOOSE k \in 1..Len(scores) : scores[k][1] = name

\* C6: select_optimal_chunks returns the chunk set whose score is the
\* maximum of the three, and on a tie for the maximum the first of the tied
\* sets in the order size, section, semantic.
C6_SelectsFirstMaximum ==
  (pc = "selected") =>
    /\ << scores[1][1], scores[2][1], scores[3][1] >> = << "size", "section", "semantic" >>
    /\ scores[1][2] = evaluate_chunk_quality(size_chunks)
    /\ scores[2][2] = evaluate_chunk_quality(section_chunks)
    /\ scores[3][2] = evaluate_chunk_quality(semantic_chunks)
    /\ \A k \in 1..3 : ~FracLess(ScoreOf(best_strategy), scores[k][2])
    /\ \A k \in 1..3 : scores[k][2] = ScoreOf(best_strategy) => RankOf(best_strategy) <= k
    /\ best_strategy = "size" => chunks = size_chunks
    /\ best_strategy = "section" => chunks = section_chunks
    /\ best_strategy = "semantic" => chunks = semantic_chunks

\* C6 witness: section and semantic tie for a maximum that size misses, and
\* the section set is returned
C6_Witness ==
  /\ pc = "selected"
  /\ scores[2][2] = scores[3][2]
  /\ FracLess(scores[1][2], scores[2][2])
  /\ best_strategy = "section"
  /\ chunks = section_chunks
  /\ section_chunks # semantic_chunks

(***************************************************************************)
(* process_document_comparison and synthesize_results                      *)
(* (src/comparison_service.py).                                            *)
(*                                                                         *)
(* The chunk list the selector returned is taken as given.  The generation *)
(* service is the environment: every call either returns an output text or *)
(* raises, and `requests` records what it received.  A returned value is   *)
(* [is_none |-> TRUE] for None and [is_none |-> FALSE, text |-> t] for the *)
(* string t.                                                               *)
(***************************************************************************)
None == [is_none |-> TRUE, text |-> << >>]

Str(t) == [is_none |-> FALSE, text |-> t]

\* the spans a selected chunk list is made of
GivenSpans ==
  { [text |-> << "a" >>, start_pos |-> 0, end_pos |-> 1, type |-> "size_based"],
    [text |-> << "b" >>, start_pos |-> 1, end_pos |-> 2, type |-> "size_based"] }

\* the output texts of the service: response.get("output", {}).get("text", "")
ServiceTexts == { << >>, << "x" >>, << "y" >> }

\* the texts of the results, in order
ResultTexts(results) == [k \in 1..Len(results) |-> results[k].text]

\* lines 291-294: the aggregate instruction (the two literals are one element
\* each)
SynthesisPrompt(results) ==
  << "Synthesize the following analysis results:", "\n", "\n" >> \o
  Concat([k \in 1..Len(results) |->
            << "Section (", results[k].chunk_info.type, "):", "\n" >> \o
            results[k].text \o << "\n", "\n" >>])

\* the handler letting the exception out instead of building the report
SynthesisReraises(results) == [raised |-> TRUE, value |-> << >>]

\* lines 326-328: what synthesize_results does when its call raised: the
\* value it returns, or the exception it lets out
SynthesisFallback(results) ==
  [raised |-> FALSE, value |-> Join(<< "\n" >>, ResultTexts(results))]

\* the index of the chunk tried after a call that raised, had the handler
\* left the loop
StopAfterError(idx, total) == total

\* lines 220-222: the index of the chunk tried after a call that raised
NextAfterError(idx, total) == idx + 1

\* one thing a run does to its surroundings, with the line that does it
Event(kind, what, line, value) ==
  [kind |-> kind, what |-> what, line |-> line, value |-> value]

\* lines 140-167: the statements before the per-chunk loop, each with its
\* line and what it does to the surroundings (the chunkers, the selector and
\* the client creation do nothing to them)
SetupStatements ==
  << << 140, << Event("create", "progress_bar", 140, Zero) >> >>,
     << 141, << Event("create", "status_text", 141, Zero) >> >>,
     << 143, << Event("status", "status_text", 143, Zero) >> >>,
     << 144, << Event("progress", "progress_bar", 144, Frac(1, 10)) >> >>,
     << 147, << >> >>,
     << 152, << >> >>,
     << 154, << Event("status", "status_text", 154, Zero) >> >>,
     << 155, << Event("progress", "progress_bar", 155, Frac(1, 5)) >> >>,
     << 163, << >> >> >>

\* what the first k statements of a list have done
EffectsOfFirst(statements, k) == Concat([j \in 1..k |-> statements[j][2]])

\* the value reported for a chunk without the offset and the scaling
ProgressUnscaled(idx, total) == Frac(idx + 1, total)

\* line 175: progress_value
ProgressValue(idx, total) ==
  FracAdd(Frac(1, 5), FracDiv(FracMul(Frac(3, 5), Frac(idx + 1, 1)), Frac(total, 1)))

\* lines 174-176: the statements of an iteration before its try block
IterationStatements(idx, total) ==
  << << 174, << Event("status", "status_text", 174, Zero) >> >>,
     << 176, << Event("progress", "progress_bar", 176, ProgressValue(idx, total)) >> >> >>

\* lines 225-226
SynthesisStatements ==
  << << 225, << Event("status", "status_text", 225, Zero) >> >>,
     << 226, << Event("progress", "progress_bar", 226, Frac(9, 10)) >> >> >>

\* lines 230-234: the end of a run that returns its result
FinishEffects ==
  << Event("progress", "progress_bar", 230, Frac(1, 1)),
     Event("status", "status_text", 231, Zero),
     Event("sleep", "time", 232, Frac(1, 2)),
     Event("empty", "progress_bar", 233, Zero),
     Event("empty", "status_text", 234, Zero) >>

\* 'progress_bar' in locals(): the assignment of the indicator has been made
Created(done, what) ==
  \E k \in 1..Len(done) : done[k].kind = "create" /\ done[k].what = what

\* the handler clearing nothing
NoCleanup(done) == << >>

\* lines 239-242: the handler clears the indicators that exist
HandlerCleanup(done) ==
  (IF Created(done, "progress_bar")
   THEN << Event("empty", "progress_bar", 240, Zero) >> ELSE << >>) \o
  (IF Created(done, "status_text")
   THEN << Event("empty", "status_text", 242, Zero) >> ELSE << >>)

\* lines 238-245: an exception raised at `line` after the run has done `done`
\* reaches the outer handler
OuterHandler(done, line) ==
  done \o << Event("raise", "Exception", line, Zero) >> \o HandlerCleanup(done) \o
  << Event("log", "logger", 243, Zero), Event("error", "st", 244, Zero) >>

\* line 219: the pacing delay after the call for chunk idx has returned
PauseAfterResult(idx) == << Event("sleep", "time", 219, Frac(1, 1)) >>

\* lines 220-222: what the handler of a call that raised does
AfterChunkError(idx) == << Event("log", "logger", 221, Zero) >>

\* lines 139-171: the run up to the per-chunk loop, with the selected list
StartPipeline ==
  /\ pc = "idle"
  /\ chunks' \in SeqsUpTo(GivenSpans, MaxChunks)
  /\ i' = 0
  /\ chunk_results' = << >>
  /\ effects' = EffectsOfFirst(SetupStatements, Len(SetupStatements))
  /\ pc' = "chunk_loop"
  /\ UNCHANGED << chunkerVars, selectVars, final_result, requests >>

\* lines 139-167, 238-245: a statement before the loop raises (an indicator
\* cannot be created, a chunker or the selector fails, the service client
\* cannot be created) and the exception reaches the outer handler
SetupFails ==
  /\ pc = "idle"
  /\ \E k \in 1..Len(SetupStatements) :
       effects' = OuterHandler(EffectsOfFirst(SetupStatements, k - 1),
                               SetupStatements[k][1])
  /\ final_result' = None
  /\ pc' = "returned"
  /\ UNCHANGED << chunkerVars, chunks, selectVars, i, chunk_results, requests >>

\* lines 173-219: the call for chunk i returns
ChunkCallReturns ==
  /\ pc = "chunk_loop"
  /\ i < Len(chunks)
  /\ \E out \in ServiceTexts :
       /\ requests' = Append(requests, [kind |-> "chunk", span |-> chunks[i + 1],
                                        ok |-> TRUE, output |-> out])
       /\ chunk_results' = Append(chunk_results,
                                  [text |-> out, chunk_info |-> chunks[i + 1]])
  /\ effects' = effects \o EffectsOfFirst(IterationStatements(i, Len(chunks)), 2) \o
                << Event("call", "chunk", 213, Zero) >> \o PauseAfterResult(i)
  /\ i' = i + 1
  /\ UNCHANGED << pc, chunkerVars, chunks, selectVars, final_result >>

\* lines 173-213, 220-222: the call for chunk i raises
ChunkCallRaises ==
  /\ pc = "chunk_loop"
  /\ i < Len(chunks)
  /\ requests' = Append(requests, [kind |-> "chunk", span |-> chunks[i + 1],
                                   ok |-> FALSE, output |-> << >>])
  /\ effects' = effects \o EffectsOfFirst(IterationStatements(i, Len(chunks)), 2) \o
                << Event("call", "chunk", 213, Zero) >> \o AfterChunkError(i)
  /\ i' = NextAfterError(i, Len(chunks))
  /\ UNCHANGED << pc, chunkerVars, chunks, selectVars, chunk_results,
                  final_result >>

\* lines 173-176, 238-245: a statement of the loop body outside the per-chunk
\* try raises and the exception reaches the outer handler
LoopFails ==
  /\ pc = "chunk_loop"
  /\ i < Len(chunks)
  /\ \E k \in 1..2 :
       effects' = OuterHandler(effects \o
                                 EffectsOfFirst(IterationStatements(i, Len(chunks)), k - 1),
                               IterationStatements(i, Len(chunks))[k][1])
  /\ final_result' = None
  /\ pc' = "returned"
  /\ UNCHANGED << chunkerVars, chunks, selectVars, i, chunk_results, requests >>

\* lines 173, 224-228: the loop is over and synthesize_results is called
LoopEnds ==
  /\ pc = "chunk_loop"
  /\ ~(i < Len(chunks))
  /\ effects' = effects \o EffectsOfFirst(SynthesisStatements, 2)
  /\ pc' = "synthesize"
  /\ UNCHANGED << chunkerVars, chunks, selectVars, i, chunk_results, final_result,
                  requests >>

SynthesisRequest(ok, out) ==
  [kind |-> "synthesis", prompt |-> SynthesisPrompt(chunk_results),
   ok |-> ok, output |-> out]

\* lines 288-325, 230-236: the synthesis call returns and so does the run
SynthesisReturns ==
  /\ pc = "synthesize"
  /\ \E out \in ServiceTexts :
       /\ requests' = Append(requests, SynthesisRequest(TRUE, out))
       /\ final_result' = Str(out)
  /\ effects' = effects \o << Event("call", "synthesis", 324, Zero) >> \o FinishEffects
  /\ pc' = "returned"
  /\ UNCHANGED << chunkerVars, chunks, selectVars, i, chunk_results >>

\* lines 288-324, 326-328, 230-245: the synthesis call raises
SynthesisRaises ==
  /\ pc = "synthesize"
  /\ requests' = Append(requests, SynthesisRequest(FALSE, << >>))
  /\ LET done == effects \o << Event("call", "synthesis", 324, Zero),
                               Event("log", "logger", 327, Zero) >>
     IN IF SynthesisFallback(chunk_results).raised
        THEN /\ final_result' = None
             /\ effects' = OuterHandler(done, 328)
        ELSE /\ final_result' = Str(SynthesisFallback(chunk_results).value)
             /\ effects' = done \o FinishEffects
  /\ pc' = "returned"
  /\ UNCHANGED << chunkerVars, chunks, selectVars, i, chunk_results >>

\* lines 228, 288-294, 238-245: synthesize_results raises outside its own try
\* block, before its call, and the exception reaches the outer handler
SynthesisEscapes ==
  /\ pc = "synthesize"
  /\ effects' = OuterHandler(effects, 228)
  /\ final_result' = None
  /\ pc' = "returned"
  /\ UNCHANGED << chunkerVars, chunks, selectVars, i, chunk_results, requests >>

PipeInit == ChunkInit

\* the steps of a running pipeline
PipeStep ==
  \/ ChunkCallReturns
  \/ ChunkCallRaises
  \/ LoopEnds
  \/ SynthesisReturns
  \/ SynthesisRaises
  \/ LoopFails
  \/ SynthesisEscapes

PipeNext ==
  \/ StartPipeline
  \/ SetupFails
  \/ PipeStep

PipeSpec == PipeInit /\ [][PipeNext]_vars /\ WF_vars(PipeStep)

(***************************************************************************)
(* Claims about the pipeline (PipeSpec).                                   *)
(***************************************************************************)
IsChunkRequest(r) == r.kind = "chunk"

IsSynthesisRequest(r) == r.kind = "synthesis"

Succeeded(r) == r.ok

ChunkRequests == SelectSeq(requests, IsChunkRequest)

SynthesisRequests == SelectSeq(requests, IsSynthesisRequest)

\* the per-chunk loop has run to its end: the statement after it was reached
LoopOver == \E k \in 1..Len(effects) : effects[k].line = 225

\* an exception has reached the outer handler: its message is out
OuterHandlerRan == \E k \in 1..Len(effects) : effects[k].kind = "error"

SynthesisFailed == SynthesisRequests # << >> /\ ~SynthesisRequests[1].ok

\* C2: whenever the per-chunk loop ends with an empty result list, the
\* function returns None and synthesize_results is not invoked; it never
\* returns a string in that case.
C2_EmptyResultsReturnNone ==
  (pc = "returned" /\ chunk_results = << >>) =>
    (final_result.is_none /\ SynthesisRequests = << >>)

\* C3: every span is sent to the service exactly once, in document order (a
\* call that raises neither stops the loop nor is retried), and the result
\* list is exactly the spans whose call returned, in document order, each
\* paired with its own span.
C3_EachSpanOnceResultsAreSuccesses ==
  /\ pc \in {"chunk_loop", "synthesize", "returned"} =>
       /\ Len(ChunkRequests) = i
       /\ i <= Len(chunks)
       /\ \A k \in 1..i : ChunkRequests[k].span = chunks[k]
       /\ chunk_results =
            LET done == SelectSeq(ChunkRequests, Succeeded)
            IN [k \in 1..Len(done) |->
                  [text |-> done[k].output, chunk_info |-> done[k].span]]
  /\ LoopOver => i = Len(chunks)

\* C3 witness: a run of three spans whose second call raised has ended its
\* loop with the first and the third span's results
C3_Witness ==
  /\ pc = "synthesize"
  /\ Len(chunks) = 3
  /\ chunks[1] # chunks[3]
  /\ ChunkRequests[1].ok /\ ~ChunkRequests[2].ok /\ ChunkRequests[3].ok
  /\ Len(chunk_results) = 2
  /\ chunk_results[2].chunk_info = chunks[3]

\* C4: given a non-empty result list, synthesize_results issues exactly one
\* service call, and when that call raises the run still returns a string
\* (not None), built without any further service call.  (A run that an
\* exception outside the service calls has ended in the outer handler has
\* not made the synthesis call.)
C4_SynthesisFailureNotSurfaced ==
  /\ (pc = "returned" /\ chunk_results # << >> /\ ~OuterHandlerRan) =>
       /\ Len(SynthesisRequests) = 1
       /\ IsSynthesisRequest(requests[Len(requests)])
       /\ Len(requests) = Len(chunks) + 1
       /\ ~final_result.is_none
  /\ (pc = "returned" /\ SynthesisRequests # << >>) =>
       /\ ~OuterHandlerRan
       /\ ~final_result.is_none

\* C4 witness: a run with results has returned after its synthesis call raised
C4_Witness ==
  /\ pc = "returned"
  /\ chunk_results # << >>
  /\ SynthesisFailed
  /\ ~final_result.is_none

\* the literal of the notice (comparision_service_pavs.py line 248), one element
SynthesisFailedNotice == "(Note: Detailed synthesis failed, showing individual analyses)"

HasNotice(report) == \E k \in 1..Len(report) : report[k] = SynthesisFailedNotice

RECURSIVE OccurInOrder(_, _, _)
\* the texts occur in the report one after the other, from offset `from` on
OccurInOrder(report, texts, from) ==
  IF texts = << >> THEN TRUE
  ELSE \E at \in from..(Len(report) - Len(Head(texts))) :
         /\ SubSeq(report, at + 1, at + Len(Head(texts))) = Head(texts)
         /\ OccurInOrder(report, Tail(texts), at + Len(Head(texts)))

\* C5: when the synthesis call fails, the report returned contains the
\* output text of every chunk result, in order, and a notice stating that
\* detailed synthesis failed.
C5_FallbackHasTextsAndNotice ==
  (pc = "returned" /\ SynthesisFailed) =>
    /\ ~final_result.is_none
    /\ OccurInOrder(final_result.text, ResultTexts(chunk_results), 0)
    /\ HasNotice(final_result.text)

IsChunkCall(e) == e.kind = "call" /\ e.what = "chunk"

IsPause(e) == e.kind = "sleep" /\ e.line = 219

\* what follows a chunk call attempt: the next attempt or the end of the loop
FollowsAttempt(e) == IsChunkCall(e) \/ e.line = 225

\* C13: the pacing delay is applied after every chunk call attempt that
\* reaches the service, whether it returned or raised: between an attempt
\* and what follows it (the next attempt, the end of the loop) there is a
\* pacing delay.
C13_PauseAfterEveryAttempt ==
  \A k, m \in 1..Len(effects) :
    (k < m /\ IsChunkCall(effects[k]) /\ FollowsAttempt(effects[m])) =>
      \E j \in (k + 1)..(m - 1) : IsPause(effects[j])

IsProgress(e) == e.what = "progress_bar" /\ e.kind \in {"create", "progress"}

IsLoopProgress(e) == e.kind = "progress" /\ e.line = 176

\* the values passed to the progress sink, in order
ProgressSeen == SelectSeq(effects, IsProgress)

\* the values reported inside the per-chunk loop, in order
LoopProgressSeen == SelectSeq(effects, IsLoopProgress)

FracLeq(x, y) == ~FracLess(y, x)

\* C14: the values passed to the progress sink never decrease and stay in
\* [0, 1]; the value reported for the chunk of index j - 1 out of n exceeds
\* the one before, is 0.2 plus 0.6 times j/n, and is above 0.2 and below
\* the synthesis value 0.9; a run that returns a result ends with 1.0.
C14_ProgressMonotone ==
  /\ \A k \in 1..Len(ProgressSeen) :
       /\ FracLeq(Zero, ProgressSeen[k].value)
       /\ FracLeq(ProgressSeen[k].value, Frac(1, 1))
       /\ k > 1 => FracLeq(ProgressSeen[k - 1].value, ProgressSeen[k].value)
  /\ \A j \in 1..Len(LoopProgressSeen) :
       /\ j > 1 => FracLess(LoopProgressSeen[j - 1].value, LoopProgressSeen[j].value)
       /\ FracMul(FracSub(LoopProgressSeen[j].value, Frac(2, 10)), Frac(10 * Len(chunks), 1))
            = Frac(6 * j, 1)
       /\ FracLess(Frac(2, 10), LoopProgressSeen[j].value)
       /\ FracLess(LoopProgressSeen[j].value, Frac(9, 10))
  /\ (pc = "returned" /\ ~final_result.is_none) =>
       ProgressSeen[Len(ProgressSeen)].value = Frac(1, 1)

\* C14 witness: a run over three spans has returned a result after reporting
\* three values inside the loop
C14_Witness ==
  /\ pc = "returned"
  /\ ~final_result.is_none
  /\ Len(chunks) = 3
  /\ Len(LoopProgressSeen) = 3
  /\ LoopProgressSeen[3].value = Frac(8, 10)
  /\ Len(ProgressSeen) = 8

\* the place of the exception that reached the outer handler
RaisedAt == CHOOSE k \in 1..Len(effects) : effects[k].kind = "raise"

Raised == \E k \in 1..Len(effects) : effects[k].kind = "raise"

\* the indicator was created before place k and is cleared after it
ClearedAfter(what, k) ==
  (\E c \in 1..(k - 1) : effects[c].kind = "create" /\ effects[c].what = what) =>
    (\E e \in (k + 1)..Len(effects) : effects[e].kind = "empty" /\ effects[e].what = what)

\* C15: an exception raised while creating the indicators, chunking,
\* selecting, creating the client, in the loop outside the per-chunk try or
\* in the synthesis stage does not reach the caller: the run returns None,
\* every indicator created before it is cleared and an error message is
\* emitted.
C15_OuterExceptionHandled ==
  Raised =>
    /\ pc = "returned"
    /\ final_result.is_none
    /\ ClearedAfter("progress_bar", RaisedAt)
    /\ ClearedAfter("status_text", RaisedAt)
    /\ \E e \in (RaisedAt + 1)..Len(effects) :
         effects[e].kind = "error" /\ effects[e].what = "st"

\* C15 witness: the second iteration of a loop raised outside its try after
\* the first span's call had returned
C15_Witness ==
  /\ Raised
  /\ effects[RaisedAt].line = 176
  /\ i = 1
  /\ Len(chunk_results) = 1
  /\ pc = "returned"
  /\ final_result.is_none
  /\ \E e \in 1..Len(effects) : effects[e].kind = "empty" /\ effects[e].line = 242

(***************************************************************************)
(* DocumentProcessor.process_document_comparison and synthesize_results    *)
(* (src/comparision_service_pavs.py).                                      *)
(*                                                                         *)
(* The chunk list chunk_document returned is taken as given; chunks and    *)
(* results are plain texts here.  A request also records how a call that   *)
(* raised did so: with botocore's ClientError or with another exception    *)
(* (a read timeout, a lost connection: botocore raises these as            *)
(* BotoCoreError, which is no ClientError).                                *)
(***************************************************************************)
\* the chunks chunk_document makes end with a full stop (lines 63, 71)
PavsChunkTexts == { << "a", "." >>, << "b", "." >> }

\* lines 102-116: the statements before the per-chunk loop
PavsSetupStatements ==
  << << 102, << Event("create", "progress_bar", 102, Zero) >> >>,
     << 103, << Event("create", "status_text", 103, Zero) >> >>,
     << 106, << Event("status", "status_text", 106, Zero) >> >>,
     << 107, << Event("progress", "progress_bar", 107, Frac(1, 10)) >> >>,
     << 108, << >> >>,
     << 114, << Event("status", "status_text", 114, Zero) >> >>,
     << 115, << Event("progress", "progress_bar", 115, Frac(1, 5)) >> >>,
     << 116, << >> >> >>

\* lines 121-123
PavsIterationEffects(idx, total) ==
  << Event("status", "status_text", 121, Zero),
     Event("progress", "progress_bar", 123, ProgressValue(idx, total)) >>

\* lines 166-167
PavsSynthesisEffects ==
  << Event("status", "status_text", 166, Zero),
     Event("progress", "progress_bar", 167, Frac(9, 10)) >>

\* lines 176-180
PavsFinishEffects ==
  << Event("progress", "progress_bar", 176, Frac(1, 1)),
     Event("status", "status_text", 177, Zero),
     Event("sleep", "time", 178, Frac(1, 2)),
     Event("empty", "progress_bar", 179, Zero),
     Event("empty", "status_text", 180, Zero) >>

\* lines 184-191: an exception raised at `line` reaches the outer handler
PavsOuterHandler(done, line) ==
  done \o << Event("raise", "Exception", line, Zero),
             Event("log", "logger", 185, Zero) >> \o
  (IF Created(done, "progress_bar")
   THEN << Event("empty", "progress_bar", 187, Zero) >> ELSE << >>) \o
  (IF Created(done, "status_text")
   THEN << Event("empty", "status_text", 189, Zero) >> ELSE << >>) \o
  << Event("error", "st", 190, Zero) >>

\* the exceptions `except ClientError` (line 161) catches
CaughtInLoop(error) == error = "ClientError"

\* lines 197-210: the aggregate instruction (every literal is one element)
PavsSynthesisPrompt(results) ==
  << "Synthesize the following analysis results into a coherent summary:",
     "\n", "\n", "Analysis Sections:", "\n" >> \o
  Join(<< "\n" >>, [k \in 1..Len(results) |->
                      << "Section ", k, ":", "\n" >> \o results[k] \o << "\n" >>]) \o
  << "\n", "\n", "Original Query Context:", "\n" >>

\* lines 243-250: the report made when the synthesis call raised
PavsSynthesisFallback(results) ==
  Join(<< "\n", "\n" >>,
       << << "# Analysis Summary" >>, << SynthesisFailedNotice >> >> \o results)

PavsRequest(kind, span, ok, out, error) ==
  [kind |-> kind, span |-> span, ok |-> ok, output |-> out, error |-> error]

\* lines 97-119: the run up to the per-chunk loop, with the chunk list
PavsStart ==
  /\ pc = "idle"
  /\ chunks' \in SeqsUpTo(PavsChunkTexts, MaxChunks)
  /\ i' = 0
  /\ chunk_results' = << >>
  /\ effects' = EffectsOfFirst(PavsSetupStatements, Len(PavsSetupStatements))
  /\ pc' = "pavs_loop"
  /\ UNCHANGED << chunkerVars, selectVars, final_result, requests >>

\* lines 100-116, 184-191: a statement before the loop raises
PavsSetupFails ==
  /\ pc = "idle"
  /\ \E k \in 1..Len(PavsSetupStatements) :
       effects' = PavsOuterHandler(EffectsOfFirst(PavsSetupStatements, k - 1),
                                   PavsSetupStatements[k][1])
  /\ final_result' = None
  /\ pc' = "pavs_returned"
  /\ UNCHANGED << chunkerVars, chunks, selectVars, i, chunk_results, requests >>

\* lines 120-160: the call for chunk i returns; an empty text is no result
PavsCallReturns ==
  /\ pc = "pavs_loop"
  /\ i < Len(chunks)
  /\ \E out \in ServiceTexts :
       /\ requests' = Append(requests,
                             PavsRequest("chunk", chunks[i + 1], TRUE, out, "none"))
       /\ chunk_results' = IF out # << >> THEN Append(chunk_results, out)
                           ELSE chunk_results
  /\ effects' = effects \o PavsIterationEffects(i, Len(chunks)) \o
                << Event("call", "chunk", 156, Zero),
                   Event("sleep", "time", 160, Frac(1, 1)) >>
  /\ i' = i + 1
  /\ UNCHANGED << pc, chunkerVars, chunks, selectVars, final_result >>

\* lines 120-156, 161-163, 184-191: the call for chunk i raises; the loop
\* goes on after a ClientError, and any other exception ends the run in the
\* outer handler
PavsCallRaises ==
  /\ pc = "pavs_loop"
  /\ i < Len(chunks)
  /\ \E error \in {"ClientError", "other"} :
       /\ requests' = Append(requests,
                             PavsRequest("chunk", chunks[i + 1], FALSE, << >>, error))
       /\ LET done == effects \o PavsIterationEffects(i, Len(chunks)) \o
                      << Event("call", "chunk", 156, Zero) >>
          IN IF CaughtInLoop(error)
             THEN /\ effects' = done \o << Event("log", "logger", 162, Zero) >>
                  /\ i' = i + 1
                  /\ UNCHANGED << pc, final_result >>
             ELSE /\ effects' = PavsOuterHandler(done, 156)
                  /\ final_result' = None
                  /\ pc' = "pavs_returned"
                  /\ UNCHANGED i
  /\ UNCHANGED << chunkerVars, chunks, selectVars, chunk_results >>

\* lines 120, 165-172, 184-191: the loop is over; without a result the run
\* raises ValueError, which the outer handler turns into None
PavsLoopEnds ==
  /\ pc = "pavs_loop"
  /\ ~(i < Len(chunks))
  /\ IF chunk_results = << >>
     THEN /\ effects' = PavsOuterHandler(effects \o PavsSynthesisEffects, 170)
          /\ final_result' = None
          /\ pc' = "pavs_returned"
     ELSE /\ effects' = effects \o PavsSynthesisEffects
          /\ pc' = "pavs_synthesize"
          /\ UNCHANGED final_result
  /\ UNCHANGED << chunkerVars, chunks, selectVars, i, chunk_results, requests >>

\* lines 193-241, 175-182: the synthesis call returns and so does the run
PavsSynthesisReturns ==
  /\ pc = "pavs_synthesize"
  /\ \E out \in ServiceTexts :
       /\ requests' = Append(requests,
                             PavsRequest("synthesis", PavsSynthesisPrompt(chunk_results),
                                         TRUE, out, "none"))
       /\ final_result' = Str(out)
  /\ effects' = effects \o << Event("call", "synthesis", 240, Zero) >> \o
                PavsFinishEffects
  /\ pc' = "pavs_returned"
  /\ UNCHANGED << chunkerVars, chunks, selectVars, i, chunk_results >>

\* lines 193-250, 175-182: the synthesis call raises, with any exception
PavsSynthesisRaises ==
  /\ pc = "pavs_synthesize"
  /\ \E error \in {"ClientError", "other"} :
       requests' = Append(requests,
                          PavsRequest("synthesis", PavsSynthesisPrompt(chunk_results),
                                      FALSE, << >>, error))
  /\ final_result' = Str(PavsSynthesisFallback(chunk_results))
  /\ effects' = effects \o << Event("call", "synthesis", 240, Zero),
                              Event("log", "logger", 244, Zero) >> \o
                PavsFinishEffects
  /\ pc' = "pavs_returned"
  /\ UNCHANGED << chunkerVars, chunks, selectVars, i, chunk_results >>

PavsInit == ChunkInit

\* the steps of a running pipeline
PavsStep ==
  \/ PavsCallReturns
  \/ PavsCallRaises
  \/ PavsLoopEnds
  \/ PavsSynthesisReturns
  \/ PavsSynthesisRaises

PavsNext ==
  \/ PavsStart
  \/ PavsSetupFails
  \/ PavsStep

PavsSpec == PavsInit /\ [][PavsNext]_vars /\ WF_vars(PavsStep)

(***************************************************************************)
(* Claims about the pavs pipeline (PavsSpec).                              *)
(***************************************************************************)
\* a chunk call has returned a text that is not empty
UsableResult(r) == IsChunkRequest(r) /\ r.ok /\ r.output # << >>

\* C17: when at least one chunk call returns a non-empty output, the run
\* returns a report (not None) even when other chunk calls fail with a
\* service error of any kind; None is returned only when no chunk call
\* produced a usable result.
C17_SurvivingSuccessesReported ==
  (pc = "pavs_returned" /\ \E k \in 1..Len(requests) : UsableResult(requests[k])) =>
    ~final_result.is_none

(***************************************************************************)
(* Claims about the spans of create_chunks_by_size and about the steps of  *)
(* create_semantic_chunks (ChunkSpec).                                     *)
(***************************************************************************)
\* C18: for every two consecutive spans k and k+1 that create_chunks_by_size
\* emits, start_pos(k+1) = end_pos(k) - overlap, so that the two share at
\* most `overlap` characters of the text.
C18_NextStartIsEndMinusOverlap ==
  strategy = "size" =>
    \A k \in 1..(Len(chunks) - 1) :
      chunks[k + 1].start_pos = chunks[k].end_pos - overlap

\* the five boundary markers
BoundaryMarkers ==
  { << ".", " " >>, << "\n", "\n" >>, << ".", " ", "\n" >>, << "?", " " >>,
    << "!", " " >> }

\* the 0-based places of the window where a boundary marker begins
MarkerPlaces(window) ==
  {p \in 0..(Len(window) - 1) :
     \E m \in BoundaryMarkers :
       /\ p + Len(m) <= Len(window)
       /\ \A x \in 1..Len(m) : window[p + x] = m[x]}

\* the step from the sliced window to the emitted span
SizeEmitStep == pc = "size_adjust" /\ pc' = "size_loop"

\* C19: a window whose end is before the end of the text is cut right after
\* the first character of the right-most boundary marker that begins in it
\* (end_pos = start_pos + last_break + 1); a window without a marker is kept
\* in full; a window that reaches the end of the text is not trimmed.  The
\* span emitted is the window so cut, stripped, from start_pos to end_pos.
C19_TrimAtLastMarker ==
  [][SizeEmitStep =>
       /\ IF end < Len(text) /\ MarkerPlaces(chunk) # {}
          THEN /\ chunk' = SubSeq(chunk, 1, MaxOf(MarkerPlaces(chunk)) + 1)
               /\ end' = start + MaxOf(MarkerPlaces(chunk)) + 1
          ELSE /\ chunk' = chunk
               /\ end' = end
       /\ Len(chunks) < MaxSpans =>
            chunks' = Append(chunks, [text |-> Strip(chunk'), start_pos |-> start,
                                      end_pos |-> end', type |-> "size_based"])]_vars

\* C19 witness: the first window of a text held two places where a marker
\* begins, did not reach the end of the text and was cut after the second
C19_Witness ==
  /\ pc = "size_loop"
  /\ strategy = "size"
  /\ Len(chunks) = 1
  /\ chunk_size < Len(text)
  /\ Cardinality(MarkerPlaces(SubSeq(text, 1, chunk_size))) = 2
  /\ chunks[1].end_pos = MaxOf(MarkerPlaces(SubSeq(text, 1, chunk_size))) + 1
  /\ chunks[1].end_pos < chunk_size

\* the step of create_semantic_chunks that handles the next paragraph
SemanticParagraphStep == pc = "semantic_loop" /\ para_i <= Len(paragraphs)

\* the paragraph has been added to the current span: no span is emitted and
\* none is started
AppendedToCurrent(para) ==
  /\ current_chunk' = current_chunk \o para \o ParagraphBreak
  /\ chunks' = chunks
  /\ current_start' = current_start

\* C20: the next paragraph is appended to the current span exactly when
\* len(current span) + len(paragraph) <= max_chunk_size, a new span is
\* started only when the sum exceeds max_chunk_size, and the last, partially
\* filled span is emitted when the paragraphs are used up.
C20_AppendIffWithinLimit ==
  /\ [][SemanticParagraphStep =>
          ( Len(current_chunk) + Len(paragraphs[para_i]) <= max_chunk_size
              <=> AppendedToCurrent(paragraphs[para_i]) )]_vars
  /\ [][(pc = "semantic_loop" /\ pc' = "done" /\ current_chunk # << >>) =>
          chunks' = Append(chunks, SemanticSpan(current_chunk, current_start))]_vars

(***************************************************************************)
(* create_chunks_by_section on its own, and the claims about it            *)
(* (SectionSpec).                                                          *)
(***************************************************************************)
\* the steps of a running create_chunks_by_section
SectionRun ==
  \/ SectionStep
  \/ SectionReturn

SectionNext ==
  \/ CallChunksBySection
  \/ SectionRun

\* the calls of create_chunks_by_section only; a function that was called
\* runs on
SectionSpec == ChunkInit /\ [][SectionNext]_vars /\ WF_vars(SectionRun)

\* one of the three boundary patterns matches in the whole text at the
\* 0-based offset q
BoundaryAt(txt, q) ==
  \E n \in 1..Len(section_patterns) : Matches(section_patterns[n], txt, q + 1)

\* the least offset at or after the cursor where a boundary matches, else
\* the length of the text
EarliestBoundary(txt, cur) ==
  MinOf({q \in cur..(Len(txt) - 1) : BoundaryAt(txt, q)} \cup {Len(txt)})

\* one iteration of the scan of create_chunks_by_section
SectionIteration == pc = "section_loop" /\ current_pos < Len(text)

\* the offset ranges of the spans are non-empty, pairwise disjoint and in
\* strictly increasing order, and no span has an empty text
DisjointIncreasing(list) ==
  /\ \A k \in 1..Len(list) :
       /\ list[k].text # << >>
       /\ list[k].start_pos < list[k].end_pos
  /\ \A j \in 1..Len(list) : \A k \in 1..Len(list) :
       j < k => /\ list[j].start_pos < list[k].start_pos
                /\ list[j].end_pos <= list[k].start_pos

\* C21: create_chunks_by_section returns for every text; every iteration
\* moves the cursor strictly forward; every cut is at the least offset at or
\* after the cursor where one of the three patterns matches (the end of the
\* text when none does), the span emitted runs from the cursor to the cut;
\* the spans emitted so far have non-empty texts and pairwise disjoint
\* offset ranges in strictly increasing order.
C21_SectionCutsEarliestAndTerminates ==
  /\ [](strategy = "section" => DisjointIncreasing(chunks))
  /\ [][SectionIteration =>
          /\ current_pos' > current_pos
          /\ current_pos' = EarliestBoundary(text, current_pos) + 1
          /\ chunks' # chunks =>
               /\ chunks' = Append(chunks, chunks'[Len(chunks')])
               /\ chunks'[Len(chunks')].start_pos = current_pos
               /\ chunks'[Len(chunks')].end_pos = EarliestBoundary(text, current_pos)]_vars
  /\ (pc = "section_loop") ~> (pc = "done" /\ strategy = "section")

\* C21 witness: the section chunker has returned two or more spans, and one
\* of its cuts was made at a boundary that is not a markdown header while
\* the text has a markdown header as well
C21_Witness ==
  /\ pc = "done"
  /\ strategy = "section"
  /\ Len(chunks) >= 2
  /\ \E q \in 1..Len(text) : MatchMarkdownHeader(text, q)
  /\ \E k \in 1..Len(chunks) :
       /\ chunks[k].end_pos < Len(text)
       /\ BoundaryAt(text, chunks[k].end_pos)
       /\ ~MatchMarkdownHeader(text, chunks[k].end_pos + 1)

(***************************************************************************)
(* ComparisonService.process_document_comparison and _cleanup_progress     *)
(* (src/comparison.py).                                                    *)
(*                                                                         *)
(* One call of retrieve_and_generate; its response is a mapping that may   *)
(* lack the "output" key or the "text" key below it.  A run ends by        *)
(* returning (pc = "cmp_returned") or, when the handler itself reads a     *)
(* local that was never assigned, by raising (pc = "cmp_raised").          *)
(***************************************************************************)
\* line 138: the least length of a stripped response that is accepted
MinResponseLen == 100

\* line 140: the text returned for a response that is too short
InsufficientNotice ==
  "The response was insufficient. Please try adjusting the query or providing more specific context."

\* n copies of the character c
Repeat(c, n) == [k \in 1..n |-> c]

\* the lengths of the response bodies tried: none, one character, and the
\* lengths around the least accepted one
BodyLengths == {0, 1, MinResponseLen - 1, MinResponseLen, MinResponseLen + 1}

\* the responses retrieve_and_generate may return
CmpResponses ==
  { [has_output |-> FALSE, has_text |-> FALSE, text |-> << >>],
    [has_output |-> TRUE, has_text |-> FALSE, text |-> << >>] } \cup
  { [has_output |-> TRUE, has_text |-> TRUE,
     text |-> Repeat(" ", lead) \o Repeat("x", n) \o Repeat("\n", trail)] :
      lead \in 0..MaxPadding, n \in BodyLengths, trail \in 0..MaxPadding }

\* line 135: response.get("output", {}).get("text", "")
ResultOf(response) ==
  IF response.has_output /\ response.has_text THEN response.text ELSE << >>

\* line 138: not result or len(result.strip()) < 100
TooShort(result) == result = << >> \/ Len(Strip(result)) < MinResponseLen

\* lines 83-127: the statements before the service call
CmpSetupStatements ==
  << << 83, << Event("create", "progress_bar", 83, Zero) >> >>,
     << 84, << Event("create", "status_text", 84, Zero) >> >>,
     << 87, << Event("status", "status_text", 87, Zero) >> >>,
     << 88, << Event("progress", "progress_bar", 88, Frac(1, 5)) >> >>,
     << 89, << >> >>,
     << 92, << Event("status", "status_text", 92, Zero) >> >>,
     << 93, << Event("progress", "progress_bar", 93, Frac(2, 5)) >> >>,
     << 94, << >> >>,
     << 97, << >> >>,
     << 126, << Event("status", "status_text", 126, Zero) >> >>,
     << 127, << Event("progress", "progress_bar", 127, Frac(3, 5)) >> >> >>

\* lines 132-135: the statements between the call and the validation
CmpValidationStatements ==
  << << 132, << Event("status", "status_text", 132, Zero) >> >>,
     << 133, << Event("progress", "progress_bar", 133, Frac(4, 5)) >> >>,
     << 135, << >> >> >>

\* lines 139-140: the path of a response that is too short
CmpShortStatements ==
  << << 139, << Event("log", "logger", 139, Zero) >> >> >>

\* lines 143-149: the path of an accepted response
CmpCompleteStatements ==
  << << 143, << Event("progress", "progress_bar", 143, Frac(1, 1)) >> >>,
     << 144, << Event("status", "status_text", 144, Zero) >> >>,
     << 145, << Event("sleep", "time", 145, Frac(1, 2)) >> >>,
     << 148, << Event("empty", "progress_bar", 148, Zero) >> >>,
     << 149, << Event("empty", "status_text", 149, Zero) >> >> >>

\* lines 132-151: the statements after the call has returned `response`
CmpAfterCall(response) ==
  CmpValidationStatements \o
  (IF TooShort(ResultOf(response)) THEN CmpShortStatements
   ELSE CmpCompleteStatements)

\* lines 140, 151: the value a run without an exception returns
CmpReturnValue(response) ==
  IF TooShort(ResultOf(response)) THEN Str(<< InsufficientNotice >>)
  ELSE Str(ResultOf(response))

\* lines 155, 160: the arguments of _cleanup_progress can be read
HandlerCanRun(done) == Created(done, "progress_bar") /\ Created(done, "status_text")

\* lines 164-169: both indicators are objects, which are true
CleanupProgress ==
  << Event("empty", "progress_bar", 167, Zero),
     Event("empty", "status_text", 169, Zero) >>

\* lines 153-162: an exception raised at `line` is handled; the handler for
\* ClientError and the one for any other exception differ in their lines
\* only.  Reading a local that was never assigned raises UnboundLocalError
\* inside the handler, which leaves the function
CmpHandler(done, line, error) ==
  LET at == IF error = "ClientError" THEN 153 ELSE 158
  IN done \o << Event("raise", error, line, Zero),
                Event("log", "logger", at + 1, Zero) >> \o
     (IF HandlerCanRun(done)
      THEN CleanupProgress \o << Event("error", "st", at + 3, Zero) >>
      ELSE << Event("raise", "UnboundLocalError", at + 2, Zero) >>)

\* where a run that met an exception ends
AfterHandler(done) == IF HandlerCanRun(done) THEN "cmp_returned" ELSE "cmp_raised"

CmpRequest(ok, response, error) ==
  [kind |-> "retrieve_and_generate", ok |-> ok, output |-> response, error |-> error]

\* lines 81-127: the run up to the service call
CmpStart ==
  /\ pc = "idle"
  /\ effects' = EffectsOfFirst(CmpSetupStatements, Len(CmpSetupStatements))
  /\ pc' = "cmp_call"
  /\ UNCHANGED << chunkerVars, chunks, selectVars, i, chunk_results, final_result,
                  requests >>

\* lines 81-127, 158-162: a statement before the call raises
CmpSetupFails ==
  /\ pc = "idle"
  /\ \E k \in 1..Len(CmpSetupStatements) :
       LET done == EffectsOfFirst(CmpSetupStatements, k - 1)
       IN /\ effects' = CmpHandler(done, CmpSetupStatements[k][1], "other")
          /\ pc' = AfterHandler(done)
  /\ final_result' = None
  /\ UNCHANGED << chunkerVars, chunks, selectVars, i, chunk_results, requests >>

\* lines 129-151: the call returns and so does the run, with the response
\* text or with the notice
CmpCallReturns ==
  /\ pc = "cmp_call"
  /\ \E response \in CmpResponses :
       /\ requests' = Append(requests, CmpRequest(TRUE, response, "none"))
       /\ effects' = effects \o << Event("call", "retrieve_and_generate", 129, Zero) >> \o
                     EffectsOfFirst(CmpAfterCall(response), Len(CmpAfterCall(response)))
       /\ final_result' = CmpReturnValue(response)
  /\ pc' = "cmp_returned"
  /\ UNCHANGED << chunkerVars, chunks, selectVars, i, chunk_results >>

\* lines 129, 153-162: the call raises ClientError or another exception
CmpCallRaises ==
  /\ pc = "cmp_call"
  /\ \E error \in {"ClientError", "other"} :
       /\ requests' = Append(requests, CmpRequest(FALSE, << >>, error))
       /\ effects' = CmpHandler(effects \o
                                << Event("call", "retrieve_and_generate", 129, Zero) >>,
                                129, error)
  /\ final_result' = None
  /\ pc' = "cmp_returned"
  /\ UNCHANGED << chunkerVars, chunks, selectVars, i, chunk_results >>

\* lines 129-149, 158-162: the call returns and a later statement raises
CmpFinishFails ==
  /\ pc = "cmp_call"
  /\ \E response \in CmpResponses :
       /\ requests' = Append(requests, CmpRequest(TRUE, response, "none"))
       /\ \E k \in 1..Len(CmpAfterCall(response)) :
            effects' = CmpHandler(effects \o
                                  << Event("call", "retrieve_and_generate", 129, Zero) >> \o
                                  EffectsOfFirst(CmpAfterCall(response), k - 1),
                                  CmpAfterCall(response)[k][1], "other")
  /\ final_result' = None
  /\ pc' = "cmp_returned"
  /\ UNCHANGED << chunkerVars, chunks, selectVars, i, chunk_results >>

CmpInit == ChunkInit

\* the steps of a running comparison
CmpStep ==
  \/ CmpCallReturns
  \/ CmpCallRaises
  \/ CmpFinishFails

CmpNext ==
  \/ CmpStart
  \/ CmpSetupFails
  \/ CmpStep

CmpSpec == CmpInit /\ [][CmpNext]_vars /\ WF_vars(CmpStep)

(***************************************************************************)
(* Claims about ComparisonService.process_document_comparison (CmpSpec).   *)
(***************************************************************************)
\* the indicator has been created and empty() has been called on it since
ClearedSinceCreated(what) ==
  \E c \in 1..Len(effects) : \E e \in 1..Len(effects) :
    /\ c < e
    /\ effects[c].kind = "create" /\ effects[c].what = what
    /\ effects[e].kind = "empty" /\ effects[e].what = what

\* C22: whenever process_document_comparison of comparison.py has returned
\* after creating the progress bar and the status text, empty() has been
\* called on both of them, also when the response was empty or shorter
\* than 100 characters.
C22_IndicatorsClearedOnEveryReturn ==
  (pc = "cmp_returned" /\ Created(effects, "progress_bar")
                       /\ Created(effects, "status_text")) =>
    /\ ClearedSinceCreated("progress_bar")
    /\ ClearedSinceCreated("status_text")

====
